---- MODULE Spec2Model ----
(***************************************************************************)
(* A model of robot_obo_tool.api: the command that convert() builds, the   *)
(* subprocess invocation of call_robot(), the availability probe           *)
(* is_available() and the ROBOTError exception with its output previews.   *)
(*                                                                         *)
(* Text is modelled by TLA+ strings (TLC evaluates Len, SubSeq and \o on   *)
(* them), bytes by sequences of byte values, an Optional by a sequence of  *)
(* length at most one (None is <<>>).                                      *)
(***************************************************************************)
EXTENDS Integers, Sequences, FiniteSets, TLC

VARIABLES
    pc,        \* position of the calling thread inside the current call
    op,        \* the public function the caller invoked ("none" when idle)
    req,       \* the arguments of the current convert() call
    args,      \* the `args` list handed to call_robot()
    nested,    \* TRUE while call_robot() runs on behalf of is_available()
    rr,        \* the invocation list `rr` of call_robot()
    running,   \* TRUE while a subprocess of check_output() runs (caller blocked)
    spawned,   \* commands of the subprocesses started during the current call
    proc,      \* Optional: how the subprocess of call_robot() terminated
    checks,    \* the checks is_available() has performed, with their results
    log,       \* logger.error() messages emitted during the current call
    crOut,     \* how call_robot() ended: returned text or raised exception
    outcome,   \* how the public function ended
    err        \* Optional: the ROBOTError constructed last

vars == <<pc, op, req, args, nested, rr, running, spawned, proc, checks, log,
          crOut, outcome, err>>

(***************************************************************************)
(* Bounds of the model.                                                    *)
(***************************************************************************)
\* longest extra_args list a caller passes
MaxExtra == 2
\* longest stdout/stderr text given to the ROBOTError constructor
MaxText == 7
\* largest preview_length given to the ROBOTError constructor
MaxPreview == 8

(***************************************************************************)
(* Text helpers: Python's str methods used by the code.                    *)
(***************************************************************************)
None == <<>>

Some(x) == <<x>>

\* the whitespace characters of the model's alphabet (str.strip, str.split)
Whitespace == {" ", "\t", "\n"}

Char(s, i) == SubSeq(s, i, i)

startswith(s, p) == Len(s) >= Len(p) /\ SubSeq(s, 1, Len(p)) = p

RECURSIVE lstrip(_)
lstrip(s) ==
    IF s # "" /\ Char(s, 1) \in Whitespace THEN lstrip(SubSeq(s, 2, Len(s))) ELSE s

RECURSIVE rstrip(_)
rstrip(s) ==
    IF s # "" /\ Char(s, Len(s)) \in Whitespace
    THEN rstrip(SubSeq(s, 1, Len(s) - 1))
    ELSE s

strip(s) == rstrip(lstrip(s))

\* str.split() without separator: the maximal runs of non-whitespace
RECURSIVE SplitFrom(_, _, _, _)
SplitFrom(s, i, cur, acc) ==
    IF i > Len(s)
    THEN IF cur = "" THEN acc ELSE Append(acc, cur)
    ELSE IF Char(s, i) \in Whitespace
         THEN SplitFrom(s, i + 1, "", IF cur = "" THEN acc ELSE Append(acc, cur))
         ELSE SplitFrom(s, i + 1, cur \o Char(s, i), acc)

split(s) == SplitFrom(s, 1, "", <<>>)

\* sep.join(parts)
RECURSIVE join(_, _)
join(sep, parts) ==
    IF parts = <<>> THEN ""
    ELSE IF Len(parts) = 1 THEN parts[1]
    ELSE parts[1] \o sep \o join(sep, Tail(parts))

\* sum(map(len, parts))
RECURSIVE TotalLen(_)
TotalLen(parts) ==
    IF parts = <<>> THEN 0 ELSE Len(Head(parts)) + TotalLen(Tail(parts))

Front(q) == SubSeq(q, 1, Len(q) - 1)

Last(q) == q[Len(q)]

(***************************************************************************)
(* textwrap.shorten(text, width) and textwrap.indent(text, prefix), as     *)
(* ROBOTError.__init__ uses them.  The result of shorten is a record:      *)
(* ok = FALSE stands for the ValueError textwrap raises when the           *)
(* placeholder does not fit the width.  Texts hold no hyphens, so the      *)
(* chunks of the collapsed text are its words and the single spaces        *)
(* between them.                                                           *)
(***************************************************************************)
placeholder == " [...]"

\* TextWrapper._split on whitespace-collapsed text: words and single spaces
RECURSIVE Interleave(_)
Interleave(words) ==
    IF Len(words) <= 1 THEN words
    ELSE <<words[1], " ">> \o Interleave(Tail(words))

\* the loop "while chunks: if cur_len + l <= width: cur_line.append(chunks.pop())"
RECURSIVE TakeFit(_, _, _)
TakeFit(chunks, cur_line, width) ==
    IF chunks # <<>> /\ TotalLen(cur_line) + Len(Head(chunks)) <= width
    THEN TakeFit(Tail(chunks), Append(cur_line, Head(chunks)), width)
    ELSE [cur_line |-> cur_line, chunks |-> chunks]

\* TextWrapper._handle_long_word with break_long_words
handle_long_word(st, width) ==
    IF st.chunks # <<>> /\ Len(Head(st.chunks)) > width
    THEN LET space_left == IF width < 1 THEN 1 ELSE width - TotalLen(st.cur_line)
             chunk == Head(st.chunks)
         IN  [cur_line |-> Append(st.cur_line, SubSeq(chunk, 1, space_left)),
              chunks   |-> <<SubSeq(chunk, space_left + 1, Len(chunk))>>
                             \o Tail(st.chunks)]
    ELSE st

\* "If the last chunk on this line is all whitespace, drop it."
drop_whitespace(st) ==
    IF st.cur_line # <<>> /\ strip(Last(st.cur_line)) = ""
    THEN [st EXCEPT !.cur_line = Front(st.cur_line)]
    ELSE st

\* the loop that makes room for the placeholder on the last allowed line
RECURSIVE AddPlaceholder(_, _)
AddPlaceholder(cur_line, width) ==
    IF cur_line = <<>> THEN lstrip(placeholder)
    ELSE IF strip(Last(cur_line)) # ""
            /\ TotalLen(cur_line) + Len(placeholder) <= width
         THEN join("", cur_line) \o placeholder
         ELSE AddPlaceholder(Front(cur_line), width)

\* TextWrapper._wrap_chunks with max_lines = 1, joined by fill()
wrap_chunks(chunks, width) ==
    IF width <= 0 \/ Len(lstrip(placeholder)) > width
    THEN [ok |-> FALSE, value |-> "ValueError"]
    ELSE IF chunks = <<>> THEN [ok |-> TRUE, value |-> ""]
    ELSE LET st == drop_whitespace(handle_long_word(TakeFit(chunks, <<>>, width), width))
         IN  \* a first line is never empty at these widths
             IF st.cur_line = <<>> THEN [ok |-> TRUE, value |-> ""]
             ELSE IF (st.chunks = <<>>
                        \/ (Len(st.chunks) = 1 /\ strip(st.chunks[1]) = ""))
                     /\ TotalLen(st.cur_line) <= width
                  THEN [ok |-> TRUE, value |-> join("", st.cur_line)]
                  ELSE [ok |-> TRUE, value |-> AddPlaceholder(st.cur_line, width)]

\* a shorten that cuts the raw text at the width: text[:width]
shorten_cut(text, width) ==
    [ok |-> TRUE, value |-> IF Len(text) <= width THEN text ELSE SubSeq(text, 1, width)]

shorten(text, width) == wrap_chunks(Interleave(split(strip(text))), width)

\* textwrap.indent of a text of at most one line
indent(text, prefix) == IF strip(text) # "" THEN prefix \o text ELSE text

(***************************************************************************)
(* Values of the arguments.  A str argument holds its text; a pathlib.Path *)
(* holds the root and the parts it was parsed into, and str() joins them.  *)
(***************************************************************************)
StrArg(s) == [kind |-> "str", text |-> s]

PathArg(root, parts) == [kind |-> "path", root |-> root, parts |-> parts]

\* str(x) of a str or of a pathlib.PurePosixPath
str(x) ==
    IF x.kind = "str" THEN x.text
    ELSE IF x.root = "" /\ x.parts = <<>> THEN "."
    ELSE x.root \o join("/", x.parts)

\* the input locators a caller passes: IRIs, local names, Path objects
InputLocators ==
    { StrArg("https://a"), StrArg("http://a"), StrArg("ftp://a"), StrArg("ftps://a"),
      StrArg("a.obo"), StrArg("ftp:/a"), StrArg("convert"), StrArg("reason"),
      PathArg("", <<"https:", "a">>), PathArg("/", <<"t", "a.obo">>) }

OutputPaths == { PathArg("/", <<"t", "o.owl">>) }

InputFlags == { None, Some("-i"), Some("-I") }

Formats == { None, Some(""), Some("ttl") }

\* str arguments that read like the options convert() appends
OptionLikeLocators == { StrArg("a.obo"), StrArg("--format") }

OptionLikeOutputPaths == OutputPaths \cup { StrArg("--format") }

OptionLikeFormats == Formats \cup { Some("--format"), Some("--check=false") }

ExtraTokens == { "--check=false", "--format", "ttl" }

RECURSIVE SeqsUpTo(_, _)
SeqsUpTo(S, n) ==
    IF n = 0 THEN { <<>> }
    ELSE LET shorter == SeqsUpTo(S, n - 1)
         IN  shorter \cup { Append(q, x) : q \in shorter, x \in S }

ExtraArgs == { None } \cup { Some(q) : q \in SeqsUpTo(ExtraTokens, MaxExtra) }

\* the calls of convert(): every combination of the plain arguments, and the
\* option-like locators, output paths and formats with the flag left to inference
Requests ==
    [ input_path : InputLocators, output_path : OutputPaths, input_flag : InputFlags,
      merge : BOOLEAN, fmt : Formats, check : BOOLEAN, reason : BOOLEAN,
      extra_args : ExtraArgs, debug : BOOLEAN ]
    \cup
    [ input_path : OptionLikeLocators, output_path : OptionLikeOutputPaths,
      input_flag : { None },
      merge : BOOLEAN, fmt : OptionLikeFormats, check : BOOLEAN, reason : BOOLEAN,
      extra_args : ExtraArgs, debug : BOOLEAN ]

(***************************************************************************)
(* convert(): the command it builds.                                       *)
(***************************************************************************)
PROTOCOLS == { "https://", "http://", "ftp://", "ftps://" }

\* an _is_remote that knows the http protocols only
_is_remote_http_only(url) ==
    url.kind = "str" /\ \E protocol \in { "https://", "http://" } : startswith(url.text, protocol)

_is_remote(url) ==
    url.kind = "str" /\ \E protocol \in PROTOCOLS : startswith(url.text, protocol)

\* "if input_flag is None: input_flag = ..."
infer_flag(r) ==
    IF r.input_flag = None
    THEN IF _is_remote(r.input_path) THEN "-I" ELSE "-i"
    ELSE r.input_flag[1]

\* stage_args with "reason" put before "merge" when both are requested
stage_args_reason_first(r) ==
    IF r.merge /\ ~r.reason
    THEN <<"merge", infer_flag(r), str(r.input_path), "convert">>
    ELSE IF r.merge /\ r.reason
    THEN <<"reason", infer_flag(r), str(r.input_path), "merge", "convert">>
    ELSE IF ~r.merge /\ r.reason
    THEN <<"reason", infer_flag(r), str(r.input_path), "convert">>
    ELSE <<"convert", infer_flag(r), str(r.input_path)>>

\* the merge/reason branches
stage_args(r) ==
    IF r.merge /\ ~r.reason
    THEN <<"merge", infer_flag(r), str(r.input_path), "convert">>
    ELSE IF r.merge /\ r.reason
    THEN <<"merge", infer_flag(r), str(r.input_path), "reason", "convert">>
    ELSE IF ~r.merge /\ r.reason
    THEN <<"reason", infer_flag(r), str(r.input_path), "convert">>
    ELSE <<"convert", infer_flag(r), str(r.input_path)>>

\* option_args that drops the extra arguments convert() has a parameter for
option_args_filtered(r) ==
    <<"-o", str(r.output_path)>>
    \o (IF r.extra_args # None
        THEN SelectSeq(r.extra_args[1], LAMBDA x : x # "--check=false")
        ELSE <<>>)
    \o (IF ~r.check THEN <<"--check=false">> ELSE <<>>)
    \o (IF r.fmt # None /\ r.fmt[1] # "" THEN <<"--format", r.fmt[1]>> ELSE <<>>)
    \o (IF r.debug THEN <<"-vvv">> ELSE <<>>)

\* option_args with "--check=false" put before the extra arguments
option_args_check_first(r) ==
    <<"-o", str(r.output_path)>>
    \o (IF ~r.check THEN <<"--check=false">> ELSE <<>>)
    \o (IF r.extra_args # None /\ r.extra_args[1] # <<>> THEN r.extra_args[1] ELSE <<>>)
    \o (IF r.fmt # None /\ r.fmt[1] # "" THEN <<"--format", r.fmt[1]>> ELSE <<>>)
    \o (IF r.debug THEN <<"-vvv">> ELSE <<>>)

\* option_args with the format put after the debug flag
option_args_format_last(r) ==
    <<"-o", str(r.output_path)>>
    \o (IF r.extra_args # None /\ r.extra_args[1] # <<>> THEN r.extra_args[1] ELSE <<>>)
    \o (IF ~r.check THEN <<"--check=false">> ELSE <<>>)
    \o (IF r.debug THEN <<"-vvv">> ELSE <<>>)
    \o (IF r.fmt # None /\ r.fmt[1] # "" THEN <<"--format", r.fmt[1]>> ELSE <<>>)

\* the options appended after the stages
option_args(r) ==
    <<"-o", str(r.output_path)>>
    \o (IF r.extra_args # None /\ r.extra_args[1] # <<>> THEN r.extra_args[1] ELSE <<>>)
    \o (IF ~r.check THEN <<"--check=false">> ELSE <<>>)
    \o (IF r.fmt # None /\ r.fmt[1] # "" THEN <<"--format", r.fmt[1]>> ELSE <<>>)
    \o (IF r.debug THEN <<"-vvv">> ELSE <<>>)

\* the list `args` convert() hands to call_robot()
convert_args(r) == stage_args(r) \o option_args(r)

(***************************************************************************)
(* ROBOTError.__init__: the fields, and the previews put in the message.   *)
(* ok = FALSE stands for the ValueError of textwrap.shorten.               *)
(***************************************************************************)
\* x or default, for an Optional[str]
OrElse(x, default) == IF x = None \/ x[1] = "" THEN default ELSE x[1]

\* a ROBOTError that keeps the tool's tokens only, without java -jar <jar>
ROBOTError_tokens_only(command, return_code, output, stderr, preview_length) ==
    LET out == OrElse(output, "<no stdout>")
        se  == OrElse(stderr, "<no stderr>")
        so  == shorten(out, preview_length)
        ss  == shorten(se, preview_length)
    IN  [ok |-> so.ok /\ ss.ok,
         value |-> [command |-> SubSeq(command, 4, Len(command)),
                    return_code |-> return_code,
                    stdout |-> out,
                    preview_length |-> preview_length,
                    stderr |-> se,
                    stdout_preview |-> indent(so.value, "  "),
                    stderr_preview |-> indent(ss.value, "  ")]]

ROBOTError(command, return_code, output, stderr, preview_length) ==
    LET out == OrElse(output, "<no stdout>")
        se  == OrElse(stderr, "<no stderr>")
        so  == shorten(out, preview_length)
        ss  == shorten(se, preview_length)
    IN  [ok |-> so.ok /\ ss.ok,
         value |-> [command |-> command,
                    return_code |-> return_code,
                    stdout |-> out,
                    preview_length |-> preview_length,
                    stderr |-> se,
                    stdout_preview |-> indent(so.value, "  "),
                    stderr_preview |-> indent(ss.value, "  ")]]

\* the default of the preview_length parameter
DefaultPreviewLength == 500

(***************************************************************************)
(* The environment of a call: the jar cache, the java launcher, the        *)
(* subprocess.  Streams are UTF-8-decodable bytes (the external            *)
(* executable contract).                                                   *)
(***************************************************************************)
\* str(get_robot_jar_path()): the pystow location of the jar of ROBOT_VERSION
JarPath == "/pystow/robot/1.9.8/robot.jar"

ExitCodes == { 0, 1, -9 }

StdoutBytes == { <<>>, <<111, 107>> }

StderrBytes == { <<>>, <<101, 114, 114>> }

\* the character of an ASCII byte
Chr(b) ==
    CASE b = 111 -> "o" [] b = 107 -> "k" [] b = 101 -> "e" [] b = 114 -> "r"
      [] OTHER -> "?"

\* bytes.decode()
RECURSIVE decode(_)
decode(bs) == IF bs = <<>> THEN "" ELSE Chr(Head(bs)) \o decode(Tail(bs))

\* the token lists a caller hands to call_robot() directly
DirectArgs == { <<"--help">>, <<"convert", "-i", "a.obo", "-o", "a.owl">> }

NoResult == [kind |-> "none"]

Return(v) == [kind |-> "return", value |-> v]

Raise(exc) == [kind |-> "raise", exc |-> exc]

LogNoJava == "java is not on the PATH"

LogJavaHelp == "java --help failed"

LogNoJar == "ROBOT was not successfully downloaded"

LogRobotHelp == "ROBOT was downloaded but could not be run with --help"

Check(name, ok) == [name |-> name, ok |-> ok]

(***************************************************************************)
(* Init: no call in progress.                                              *)
(***************************************************************************)
Init ==
    /\ pc = "idle"
    /\ op = "none"
    /\ req = None
    /\ args = <<>>
    /\ nested = FALSE
    /\ rr = <<>>
    /\ running = FALSE
    /\ spawned = <<>>
    /\ proc = None
    /\ checks = <<>>
    /\ log = <<>>
    /\ crOut = NoResult
    /\ outcome = NoResult
    /\ err = None

(***************************************************************************)
(* The caller invokes a public function.                                   *)
(***************************************************************************)
\* convert(...): builds args, then "return call_robot(args)"
convert ==
    /\ pc = "idle"
    /\ \E r \in Requests :
         /\ req' = Some(r)
         /\ args' = convert_args(r)
    /\ op' = "convert"
    /\ pc' = "cr_jar"
    /\ UNCHANGED <<nested, rr, running, spawned, proc, checks, log, crOut, outcome, err>>

\* call_robot(args), called directly
call_robot ==
    /\ pc = "idle"
    /\ \E a \in DirectArgs : args' = a
    /\ op' = "call_robot"
    /\ pc' = "cr_jar"
    /\ UNCHANGED <<req, nested, rr, running, spawned, proc, checks, log, crOut, outcome, err>>

\* is_available()
is_available ==
    /\ pc = "idle"
    /\ op' = "is_available"
    /\ pc' = "ia_which"
    /\ UNCHANGED <<req, args, nested, rr, running, spawned, proc, checks, log, crOut,
                   outcome, err>>

(***************************************************************************)
(* call_robot(), step by step.  When it runs for is_available() its        *)
(* result is turned into the result of the fourth check.                   *)
(***************************************************************************)
\* call_robot() raises exc: propagated, or caught by "except Exception" of the probe
CrRaises(exc) ==
    /\ crOut' = Raise(exc)
    /\ pc' = "done"
    /\ IF nested
       THEN /\ checks' = Append(checks, Check("robot_help", FALSE))
            /\ log' = Append(log, LogRobotHelp)
            /\ outcome' = Return(FALSE)
       ELSE /\ outcome' = Raise(exc)
            /\ UNCHANGED <<checks, log>>

\* call_robot() returns text
CrReturns(text) ==
    /\ crOut' = Return(text)
    /\ pc' = "done"
    /\ IF nested
       THEN /\ checks' = Append(checks, Check("robot_help", TRUE))
            /\ outcome' = Return(TRUE)
       ELSE /\ outcome' = Return(text)
            /\ UNCHANGED checks
    /\ UNCHANGED log

\* rr = ["java", "-jar", str(get_robot_jar_path()), *args]
CrJarPath ==
    /\ pc = "cr_jar"
    /\ \E resolved \in BOOLEAN :
         IF resolved
         THEN /\ rr' = <<"java", "-jar", JarPath>> \o args
              /\ pc' = "cr_spawn"
              /\ UNCHANGED <<checks, log, crOut, outcome>>
         ELSE /\ CrRaises("DownloadError")
              /\ UNCHANGED rr
    /\ UNCHANGED <<op, req, args, nested, running, spawned, proc, err>>

\* check_output(rr, ...) starts the subprocess, or fails to launch it
CrSpawn ==
    /\ pc = "cr_spawn"
    /\ \E launched \in BOOLEAN :
         IF launched
         THEN /\ spawned' = Append(spawned, rr)
              /\ running' = TRUE
              /\ pc' = "cr_wait"
              /\ UNCHANGED <<checks, log, crOut, outcome>>
         ELSE /\ CrRaises("OSError")
              /\ UNCHANGED <<spawned, running>>
    /\ UNCHANGED <<op, req, args, nested, rr, proc, err>>

\* a CrExit that starts the subprocess once more after a non-zero exit
CrExit_retry ==
    /\ pc = "cr_wait"
    /\ running
    /\ \E code \in ExitCodes, out \in StdoutBytes, se \in StderrBytes :
         /\ proc' = Some([cmd |-> rr, returncode |-> code, output |-> out, stderr |-> se])
         /\ IF code = 0
            THEN /\ CrReturns(decode(out))
                 /\ UNCHANGED err
            ELSE IF Len(spawned) < 2
            THEN /\ pc' = "cr_spawn"
                 /\ UNCHANGED <<checks, log, crOut, outcome, err>>
            ELSE /\ err' = Some(ROBOTError(rr, code, Some(decode(out)), Some(decode(se)),
                                           DefaultPreviewLength).value)
                 /\ CrRaises("ROBOTError")
    /\ running' = FALSE
    /\ UNCHANGED <<op, req, args, nested, rr, spawned>>

\* the subprocess terminates; check_output returns its stdout or raises
\* CalledProcessError, which call_robot() turns into ROBOTError
CrExit ==
    /\ pc = "cr_wait"
    /\ running
    /\ \E code \in ExitCodes, out \in StdoutBytes, se \in StderrBytes :
         /\ proc' = Some([cmd |-> rr, returncode |-> code, output |-> out, stderr |-> se])
         /\ IF code = 0
            THEN /\ CrReturns(decode(out))
                 /\ UNCHANGED err
            ELSE /\ err' = Some(ROBOTError(rr, code, Some(decode(out)), Some(decode(se)),
                                           DefaultPreviewLength).value)
                 /\ CrRaises("ROBOTError")
    /\ running' = FALSE
    /\ UNCHANGED <<op, req, args, nested, rr, spawned>>

(***************************************************************************)
(* is_available(), step by step.                                           *)
(***************************************************************************)
\* a check of the probe failed: log it and return False
IaFails(name, message) ==
    /\ checks' = Append(checks, Check(name, FALSE))
    /\ log' = Append(log, message)
    /\ outcome' = Return(FALSE)
    /\ pc' = "done"

\* a check of the probe passed: go on
IaPasses(name, next) ==
    /\ checks' = Append(checks, Check(name, TRUE))
    /\ pc' = next
    /\ UNCHANGED <<log, outcome>>

\* an IaWhich that logs the missing java and goes on to the next check
IaWhich_no_return ==
    /\ pc = "ia_which"
    /\ \E found \in BOOLEAN :
         IF found
         THEN IaPasses("which", "ia_java")
         ELSE /\ checks' = Append(checks, Check("which", FALSE))
              /\ log' = Append(log, LogNoJava)
              /\ pc' = "ia_java"
              /\ UNCHANGED outcome
    /\ UNCHANGED <<op, req, args, nested, rr, running, spawned, proc, crOut, err>>

\* which("java") is None
IaWhich ==
    /\ pc = "ia_which"
    /\ \E found \in BOOLEAN :
         IF found THEN IaPasses("which", "ia_java") ELSE IaFails("which", LogNoJava)
    /\ UNCHANGED <<op, req, args, nested, rr, running, spawned, proc, crOut, err>>

\* check_output(["java", "--help"]) starts the subprocess, or fails to launch it
\* (OSError, caught by "except Exception")
IaJavaSpawn ==
    /\ pc = "ia_java"
    /\ \E launched \in BOOLEAN :
         IF launched
         THEN /\ spawned' = Append(spawned, <<"java", "--help">>)
              /\ running' = TRUE
              /\ pc' = "ia_java_wait"
              /\ UNCHANGED <<checks, log, outcome>>
         ELSE /\ IaFails("java_help", LogJavaHelp)
              /\ UNCHANGED <<spawned, running>>
    /\ UNCHANGED <<op, req, args, nested, rr, proc, crOut, err>>

\* `java --help` terminates; check_output returns, or raises CalledProcessError
\* (caught by "except Exception")
IaJavaExit ==
    /\ pc = "ia_java_wait"
    /\ running
    /\ \E code \in ExitCodes :
         IF code = 0
         THEN IaPasses("java_help", "ia_jar")
         ELSE IaFails("java_help", LogJavaHelp)
    /\ running' = FALSE
    /\ UNCHANGED <<op, req, args, nested, rr, spawned, proc, crOut, err>>

\* robot_jar_path = get_robot_jar_path(), outside any try
IaJarPath ==
    /\ pc = "ia_jar"
    /\ \E resolved \in BOOLEAN :
         IF resolved
         THEN /\ pc' = "ia_isfile"
              /\ UNCHANGED outcome
         ELSE /\ outcome' = Raise("DownloadError")
              /\ pc' = "done"
    /\ UNCHANGED <<op, req, args, nested, rr, running, spawned, proc, checks, log, crOut, err>>

\* robot_jar_path.is_file(), then call_robot(["--help"]) inside try/except Exception
IaIsFile ==
    /\ pc = "ia_isfile"
    /\ \E is_file \in BOOLEAN :
         IF is_file
         THEN /\ IaPasses("is_file", "cr_jar")
              /\ args' = <<"--help">>
              /\ nested' = TRUE
         ELSE /\ IaFails("is_file", LogNoJar)
              /\ UNCHANGED <<args, nested>>
    /\ UNCHANGED <<op, req, rr, running, spawned, proc, crOut, err>>

(***************************************************************************)
(* The call is over: the caller has its result.                            *)
(***************************************************************************)
Finish ==
    /\ pc = "done"
    /\ pc' = "idle"
    /\ op' = "none"
    /\ req' = None
    /\ args' = <<>>
    /\ nested' = FALSE
    /\ rr' = <<>>
    /\ running' = FALSE
    /\ spawned' = <<>>
    /\ proc' = None
    /\ checks' = <<>>
    /\ log' = <<>>
    /\ crOut' = NoResult
    /\ outcome' = NoResult
    /\ err' = None

Next ==
    \/ convert
    \/ call_robot
    \/ is_available
    \/ CrJarPath
    \/ CrSpawn
    \/ CrExit
    \/ IaWhich
    \/ IaJavaSpawn
    \/ IaJavaExit
    \/ IaJarPath
    \/ IaIsFile
    \/ Finish

Spec == Init /\ [][Next]_vars

(***************************************************************************)
(* The ROBOTError constructor called on its own, with the stream texts and *)
(* preview lengths of the bounds.                                          *)
(***************************************************************************)
Alphabet == { "a", " ", "\n" }

RECURSIVE StringsUpTo(_, _)
StringsUpTo(S, n) ==
    IF n = 0 THEN { "" }
    ELSE LET shorter == StringsUpTo(S, n - 1)
         IN  shorter \cup { s \o c : s \in shorter, c \in S }

Texts == { None } \cup { Some(t) : t \in StringsUpTo(Alphabet, MaxText) }

\* from one below the smallest width textwrap.shorten accepts
PreviewLengths == (Len(lstrip(placeholder)) - 1) .. MaxPreview

\* ROBOTError(command, return_code, output, stderr, preview_length)
NewROBOTError ==
    /\ pc = "idle"
    /\ \E t \in Texts, stream \in { "stdout", "stderr" }, n \in PreviewLengths :
         LET given == [output |-> IF stream = "stdout" THEN t ELSE None,
                       stderr |-> IF stream = "stderr" THEN t ELSE None,
                       preview_length |-> n]
             e == ROBOTError(<<"java", "-jar", JarPath, "--help">>, 1,
                             given.output, given.stderr, n)
         IN  /\ req' = Some(given)
             /\ IF e.ok
                THEN /\ err' = Some(e.value)
                     /\ outcome' = Return("ROBOTError")
                ELSE /\ err' = None
                     /\ outcome' = Raise("ValueError")
    /\ op' = "ROBOTError"
    /\ pc' = "done"
    /\ UNCHANGED <<args, nested, rr, running, spawned, proc, checks, log, crOut>>

NextError ==
    \/ NewROBOTError
    \/ Finish

SpecError == Init /\ [][NextError]_vars

(***************************************************************************)
(* Vocabulary of the properties.                                           *)
(***************************************************************************)
\* convert() has built its command
Built == op = "convert" /\ req # None

\* the first position of token x in q (0 when absent)
IndexOf(q, x) ==
    IF \E i \in DOMAIN q : q[i] = x
    THEN CHOOSE i \in DOMAIN q : q[i] = x /\ \A j \in 1 .. (i - 1) : q[j] # x
    ELSE 0

\* how often token x occurs in q
Count(q, x) == Cardinality({ i \in DOMAIN q : q[i] = x })

\* the extra arguments of a request, as a list
ExtrasOf(r) == IF r.extra_args = None THEN <<>> ELSE r.extra_args[1]

\* the flag the specification asks for: the caller's, else inferred from the input
SpecFlag(r) ==
    IF r.input_flag # None THEN r.input_flag[1]
    ELSE IF r.input_path.kind = "str"
            /\ (\/ startswith(r.input_path.text, "https://")
                \/ startswith(r.input_path.text, "http://")
                \/ startswith(r.input_path.text, "ftp://")
                \/ startswith(r.input_path.text, "ftps://"))
         THEN "-I"
         ELSE "-i"

\* the stage sequence the specification fixes for (merge, reason)
SpecStages(r) ==
    CASE ~r.merge /\ ~r.reason -> <<"convert", SpecFlag(r), str(r.input_path)>>
      [] r.merge /\ ~r.reason  -> <<"merge", SpecFlag(r), str(r.input_path), "convert">>
      [] ~r.merge /\ r.reason  -> <<"reason", SpecFlag(r), str(r.input_path), "convert">>
      [] r.merge /\ r.reason   ->
             <<"merge", SpecFlag(r), str(r.input_path), "reason", "convert">>

\* the position of the last extra argument (of the output path when there is none)
ExtrasEnd(r) == Len(SpecStages(r)) + Len(<<"-o", str(r.output_path)>>) + Len(ExtrasOf(r))

\* the strings of the caller that convert() copies into the command
CallerTokens(r) ==
    <<SpecFlag(r), str(r.input_path), str(r.output_path)>> \o ExtrasOf(r)
    \o (IF r.fmt = None THEN <<>> ELSE r.fmt)

\* the pair <<a, b>> occurs contiguously in q at position i
PairAt(q, i, a, b) == i >= 1 /\ i + 1 <= Len(q) /\ q[i] = a /\ q[i + 1] = b

\* the names a format parameter takes in the model
FormatNames == { f[1] : f \in OptionLikeFormats \ { None } }

\* the positions of the command that hold a locator or an extra argument of the
\* caller: the input, the output path and the extra arguments
CallerPositions(r) ==
    { 3, Len(SpecStages(r)) + 2 } \cup ((Len(SpecStages(r)) + 3) .. ExtrasEnd(r))

(***************************************************************************)
(* C1.  The command convert() builds starts with the stage sequence fixed  *)
(* by (merge, reason), immediately followed by "-o", the output path and   *)
(* the caller's extra arguments, in the order given and unfiltered.        *)
(***************************************************************************)
C1_StagesOutputExtras ==
    Built =>
        LET r == req[1]
            expected == SpecStages(r) \o <<"-o", str(r.output_path)>> \o ExtrasOf(r)
        IN  /\ Len(args) >= Len(expected)
            /\ SubSeq(args, 1, Len(expected)) = expected

C1_Witness ==
    /\ Built
    /\ pc = "done"
    /\ req[1].merge /\ req[1].reason
    /\ ExtrasOf(req[1]) = <<"ttl", "--check=false">>

(***************************************************************************)
(* C2.  As claimed: with merge and reason both requested, the first        *)
(* "merge" token comes before the first "reason" token, which comes before *)
(* the first "convert" token, for any input locator.                       *)
(***************************************************************************)
C2_Original ==
    (Built /\ req[1].merge /\ req[1].reason) =>
        /\ IndexOf(args, "merge") < IndexOf(args, "reason")
        /\ IndexOf(args, "reason") < IndexOf(args, "convert")

(***************************************************************************)
(* C2, amended.  With merge and reason both requested the stage tokens     *)
(* "merge", "reason" and "convert" stand at positions 1, 4 and 5 of the    *)
(* command; the first occurrences of the three tokens are in that order    *)
(* unless the input locator's string is itself "convert".                  *)
(***************************************************************************)
C2_StageOrder ==
    (Built /\ req[1].merge /\ req[1].reason) =>
        /\ args[1] = "merge" /\ args[4] = "reason" /\ args[5] = "convert"
        /\ str(req[1].input_path) # "convert" =>
              /\ IndexOf(args, "merge") < IndexOf(args, "reason")
              /\ IndexOf(args, "reason") < IndexOf(args, "convert")

C2_Witness ==
    /\ Built
    /\ pc = "done"
    /\ req[1].merge /\ req[1].reason
    /\ str(req[1].input_path) = "https://a"
    /\ IndexOf(args, "convert") = 5

(***************************************************************************)
(* C3.  Without an explicit input flag the command holds "-I" for a str    *)
(* input that begins with https://, http://, ftp:// or ftps://, and "-i"   *)
(* for every other str and for every non-str input; an explicit flag is    *)
(* used unchanged.                                                         *)
(***************************************************************************)
C3_InputFlag ==
    Built =>
        LET r == req[1]
        IN  /\ r.input_flag # None => args[2] = r.input_flag[1]
            /\ (r.input_flag = None /\ r.input_path.kind # "str") => args[2] = "-i"
            /\ (r.input_flag = None /\ r.input_path.kind = "str") =>
                  args[2] = IF \E p \in { "https://", "http://", "ftp://", "ftps://" } :
                                  startswith(r.input_path.text, p)
                            THEN "-I"
                            ELSE "-i"

C3_Witness ==
    /\ Built
    /\ req[1].input_flag = None
    /\ req[1].input_path = StrArg("ftps://a")
    /\ args[2] = "-I"

(***************************************************************************)
(* C4.  As claimed: check=false holds exactly when "--check=false" occurs  *)
(* exactly once in the command, and an occurrence stands after every       *)
(* extra argument.                                                         *)
(***************************************************************************)
C4_Original ==
    Built =>
        LET r == req[1]
        IN  /\ (~r.check) <=> (Count(args, "--check=false") = 1)
            /\ \A i \in DOMAIN args : args[i] = "--check=false" => i > ExtrasEnd(r)

(***************************************************************************)
(* C4, amended.  check=false holds exactly when the token right after the  *)
(* last extra argument is "--check=false"; the command holds that token    *)
(* once for check=false plus once for every occurrence among the strings   *)
(* the caller supplied (input flag, input, output, extra arguments,        *)
(* format), which are copied unfiltered.                                   *)
(***************************************************************************)
C4_CheckFlag ==
    Built =>
        LET r == req[1]
            k == ExtrasEnd(r) + 1
        IN  /\ (~r.check) <=> (k <= Len(args) /\ args[k] = "--check=false")
            /\ Count(args, "--check=false")
                 = (IF r.check THEN 0 ELSE 1) + Count(CallerTokens(r), "--check=false")

C4_Witness ==
    /\ Built
    /\ pc = "done"
    /\ ~req[1].check
    /\ ExtrasOf(req[1]) = <<"--check=false", "ttl">>
    /\ Count(args, "--check=false") = 2

(***************************************************************************)
(* C5.  As claimed: a format f is given exactly when the contiguous pair   *)
(* "--format", f occurs in the command; the pair stands after the extra    *)
(* arguments and after "--check=false", and before "-vvv", which is the    *)
(* single last token when debug is requested.                              *)
(***************************************************************************)
C5_Original ==
    Built =>
        LET r == req[1]
            k == ExtrasEnd(r) + (IF r.check THEN 0 ELSE 1)
        IN  /\ \A f \in FormatNames :
                  (r.fmt = Some(f)) <=> (\E i \in DOMAIN args : PairAt(args, i, "--format", f))
            /\ \A f \in FormatNames, i \in DOMAIN args :
                  PairAt(args, i, "--format", f) =>
                      /\ i > k
                      /\ r.debug => i + 1 < Len(args)
            /\ r.debug => (args[Len(args)] = "-vvv" /\ Count(args, "-vvv") = 1)

(***************************************************************************)
(* C5, amended.  After the extra arguments and the "--check=false" of      *)
(* check=false, the command ends with the pair "--format", f exactly when  *)
(* a non-empty format f is given (an empty format string counts as none),  *)
(* followed by the single token "-vvv" exactly when debug is requested.    *)
(* Every other contiguous pair that begins with "--format" begins at a     *)
(* string the caller supplied: the input locator, the output path or an    *)
(* extra argument (its second token is whatever follows, which may be the  *)
(* next extra argument or the "--check=false" or "--format" convert()      *)
(* appends), or the format f itself when f is "--format" and "-vvv"        *)
(* follows it.                                                             *)
(***************************************************************************)
C5_FormatDebug ==
    Built =>
        LET r == req[1]
            k == ExtrasEnd(r) + (IF r.check THEN 0 ELSE 1)
            given == r.fmt # None /\ r.fmt[1] # ""
        IN  /\ k <= Len(args)
            /\ SubSeq(args, k + 1, Len(args))
                 = (IF given THEN <<"--format", r.fmt[1]>> ELSE <<>>)
                   \o (IF r.debug THEN <<"-vvv">> ELSE <<>>)
            /\ \A i \in 1 .. (Len(args) - 1) :
                  args[i] = "--format" =>
                      \/ given /\ i = k + 1 /\ args[i + 1] = r.fmt[1]
                      \/ given /\ i = k + 2 /\ r.fmt[1] = "--format"
                                /\ r.debug /\ args[i + 1] = "-vvv"
                      \/ i \in CallerPositions(r)

\* the pair of the format parameter at the end, and the same pair once more,
\* straddling the output path and the first extra argument
C5_Witness ==
    /\ Built
    /\ pc = "done"
    /\ req[1].fmt = Some("ttl")
    /\ req[1].debug
    /\ ~req[1].check
    /\ str(req[1].output_path) = "--format"
    /\ ExtrasOf(req[1]) = <<"ttl", "--format">>
    /\ PairAt(args, Len(SpecStages(req[1])) + 2, "--format", "ttl")
    /\ PairAt(args, ExtrasEnd(req[1]) + 2, "--format", "ttl")
    /\ PairAt(args, ExtrasEnd(req[1]), "--format", "--check=false")
    /\ args[Len(args)] = "-vvv"

(***************************************************************************)
(* C6.  call_robot() ends with ROBOTError exactly when its subprocess      *)
(* exited with a non-zero status (convert() passes it on); the error's     *)
(* command is the invoked list java, -jar, jar path, tokens, and its       *)
(* return_code is the exit status.                                         *)
(***************************************************************************)
C6_RobotError ==
    /\ (crOut = Raise("ROBOTError")) <=> (proc # None /\ proc[1].returncode # 0)
    /\ crOut = Raise("ROBOTError") =>
          /\ err # None
          /\ err[1].command = <<"java", "-jar", JarPath>> \o args
          /\ err[1].command = spawned[Len(spawned)]
          /\ err[1].return_code = proc[1].returncode
          /\ op \in { "convert", "call_robot" } => outcome = Raise("ROBOTError")

C6_Witness ==
    /\ op = "convert"
    /\ crOut = Raise("ROBOTError")
    /\ proc[1].returncode = -9
    /\ err[1].return_code = -9

(***************************************************************************)
(* C7.  As claimed: the preview of a stream text longer than               *)
(* preview_length is no longer than preview_length plus the truncation     *)
(* marker, and the preview of a text shorter than preview_length is the    *)
(* text itself, whatever whitespace it holds (read in the claim's favour:  *)
(* apart from the indent the preview has in the message).                  *)
(***************************************************************************)
C7_Original ==
    (op = "ROBOTError" /\ err # None) =>
        LET n == req[1].preview_length
            \* the preview behind the two-space indent it has in the message
            Body(preview) ==
                IF startswith(preview, "  ") THEN SubSeq(preview, 3, Len(preview))
                ELSE preview
            Holds(t, preview) ==
                t # None =>
                    /\ Len(t[1]) > n => Len(preview) <= n + Len(placeholder)
                    /\ Len(t[1]) < n => Body(preview) = t[1]
        IN  /\ Holds(req[1].output, err[1].stdout_preview)
            /\ Holds(req[1].stderr, err[1].stderr_preview)

(***************************************************************************)
(* C7, amended.  For the stored text of a stream (its text, or the         *)
(* placeholder "<no stdout>" / "<no stderr>" when the stream is empty or   *)
(* missing): when it is longer than preview_length the preview is no       *)
(* longer than preview_length plus the two characters of the indent; when  *)
(* it is shorter than preview_length the preview is the text with its      *)
(* leading and trailing whitespace removed and every run of whitespace     *)
(* replaced by one space, behind a two-space indent (and empty when the    *)
(* text is all whitespace).                                                *)
(***************************************************************************)
C7_Preview ==
    (op = "ROBOTError" /\ err # None) =>
        LET n == err[1].preview_length
            Collapsed(t) == join(" ", split(t))
            Holds(t, preview) ==
                /\ Len(t) > n => Len(preview) <= n + Len("  ")
                /\ Len(t) < n =>
                      preview = IF Collapsed(t) = "" THEN "" ELSE "  " \o Collapsed(t)
        IN  /\ n = req[1].preview_length
            /\ err[1].stdout = OrElse(req[1].output, "<no stdout>")
            /\ err[1].stderr = OrElse(req[1].stderr, "<no stderr>")
            /\ Holds(err[1].stdout, err[1].stdout_preview)
            /\ Holds(err[1].stderr, err[1].stderr_preview)

C7_Witness ==
    /\ op = "ROBOTError"
    /\ err # None
    /\ req[1].output = Some("a \na")
    /\ req[1].preview_length = Len("a \na") + 1
    /\ err[1].stdout_preview = "  a a"

(***************************************************************************)
(* C8.  As claimed: is_available() never ends with an exception.           *)
(***************************************************************************)
C8_NeverThrows == op = "is_available" => outcome.kind # "raise"

(***************************************************************************)
(* C9.  is_available() performs its four checks in the fixed order and     *)
(* stops at the first that fails: a failed check is the last one           *)
(* performed, the call has then returned False with the log message of     *)
(* that check only and no subprocess started after it (`java --help` is    *)
(* started only after java was found, the tool only after the first three  *)
(* checks passed, and nothing runs once a check has failed); True is       *)
(* returned only when all four checks passed.                              *)
(***************************************************************************)
C9_ShortCircuit ==
    op = "is_available" =>
        LET n == Len(checks)
            order == <<"which", "java_help", "is_file", "robot_help">>
            message == <<LogNoJava, LogJavaHelp, LogNoJar, LogRobotHelp>>
        IN  /\ n <= Len(order)
            /\ \A i \in 1 .. n : checks[i].name = order[i]
            /\ \A i \in 1 .. (n - 1) : checks[i].ok
            /\ (outcome.kind = "return" /\ outcome.value) =>
                  (n = Len(order) /\ \A i \in 1 .. n : checks[i].ok)
            /\ (n >= 1 /\ ~checks[n].ok) =>
                  /\ pc = "done"
                  /\ outcome = Return(FALSE)
                  /\ log = <<message[n]>>
                  /\ n = 1 => spawned = <<>>
                  /\ n = 2 => spawned \in { <<>>, << <<"java", "--help">> >> }
                  /\ n = 3 => spawned = << <<"java", "--help">> >>
                  /\ ~running
            /\ (\A i \in 1 .. n : checks[i].ok) => log = <<>>
            /\ Len(spawned) <= 2
            /\ Len(spawned) >= 1 =>
                  (n >= 1 /\ checks[1].ok /\ spawned[1] = <<"java", "--help">>)
            /\ Len(spawned) = 2 =>
                  /\ n >= 3 /\ \A i \in 1 .. 3 : checks[i].ok
                  /\ spawned[2] = <<"java", "-jar", JarPath, "--help">>
            /\ running => (outcome = NoResult /\ \A i \in 1 .. n : checks[i].ok)

C9_Witness ==
    /\ op = "is_available"
    /\ Len(checks) = 2
    /\ ~checks[2].ok
    /\ spawned = <<>>
    /\ outcome = Return(FALSE)
    /\ log = <<LogJavaHelp>>

(***************************************************************************)
(* C10.  As claimed: every call of call_robot() or convert() starts        *)
(* exactly one subprocess before it ends.                                  *)
(***************************************************************************)
C10_Original ==
    (op \in { "call_robot", "convert" } /\ pc = "done") => Len(spawned) = 1

(***************************************************************************)
(* C10, amended.  A call of call_robot() or convert() starts at most one   *)
(* subprocess and never a second one.  While the subprocess runs the call  *)
(* is blocked without a result.  A call that resolved the jar and launched *)
(* java has started exactly one subprocess, the invocation, and ends with  *)
(* the decoded standard output on exit code 0 and with ROBOTError on any   *)
(* other; a call whose jar resolution or launch failed has started none    *)
(* and ends with that failure.                                             *)
(***************************************************************************)
C10_SingleAttempt ==
    op \in { "call_robot", "convert" } =>
        /\ Len(spawned) <= 1
        /\ running => (pc = "cr_wait" /\ outcome = NoResult /\ spawned = <<rr>>)
        /\ outcome # NoResult => (pc = "done" /\ ~running)
        /\ (pc = "done" /\ proc # None) =>
              /\ spawned = << <<"java", "-jar", JarPath>> \o args >>
              /\ proc[1].returncode = 0 => outcome = Return(decode(proc[1].output))
              /\ proc[1].returncode # 0 => outcome = Raise("ROBOTError")
        /\ (pc = "done" /\ proc = None) =>
              /\ spawned = <<>>
              /\ outcome \in { Raise("DownloadError"), Raise("OSError") }

C10_Witness ==
    /\ op = "convert"
    /\ pc = "done"
    /\ proc # None
    /\ proc[1].returncode # 0
    /\ Len(spawned) = 1
    /\ outcome = Raise("ROBOTError")

====
